---- MODULE Spec2Model ----
(***************************************************************************)
(* Model of urlwatch's filter layer (lib/urlwatch/filters.py): the         *)
(* ElementsBy HTML element extractor, the FilterBase dispatch entry points *)
(* auto_process / process, and the filter() methods of the filter units.   *)
(*                                                                         *)
(* A Python str is modelled as a sequence of atoms (short TLA+ strings),   *)
(* so that ''.join and the % formatting are sequence concatenations.       *)
(***************************************************************************)
EXTENDS Integers, Sequences, FiniteSets, TLC

VARIABLES
    \* ---- ElementsBy (one instance, one feed) ----
    crit,       \* constructor arguments (filter_by, name, value)
    fed,        \* token events handed to the handlers so far
    inside,     \* self._inside
    elts,       \* self._elts
    result,     \* self._result (list of fragments)
    err,        \* exception raised by a handler, None when none
    \* ---- FilterBase dispatch ----
    subclasses,             \* FilterBase.__subclasses__: kind -> class
    anonymous_subclasses,   \* FilterBase.__anonymous_subclasses__
    job,        \* state.job.to_dict()
    hooksfile,  \* what ~/.urlwatch/lib/hooks.py is in this run
    input,      \* the content handed to the entry point
    subfilter,  \* the caller's subfilter argument object
    pc,         \* "idle", "auto" (inside the loop of auto_process), "done"
    filters,    \* auto_process: the classes the iterator has still to yield
    data,       \* auto_process: the local variable data
    calls,      \* constructor, match and filter calls made, in order
    outcomes    \* what each call of an entry point returned or raised

xvars == <<crit, fed, inside, elts, result, err>>
dvars == <<subclasses, anonymous_subclasses, job, hooksfile, input, subfilter,
           pc, filters, data, calls, outcomes>>
vars == <<xvars, dvars>>

\* Python's None
None == "<None>"

\* ---- bounds ----
MaxEvents == 6
MaxCalls == 2

\* ---- class FilterBy(Enum) ----
ATTRIBUTE == 1
TAG == 2

\* ---- small helpers over Python lists ----
Last(s) == s[Len(s)]
Front(s) == SubSeq(s, 1, Len(s) - 1)
InList(x, s) == \E i \in 1..Len(s) : s[i] = x

RECURSIVE Join(_)
\* ''.join(list of str)
Join(frags) == IF frags = <<>> THEN <<>> ELSE Head(frags) \o Join(Tail(frags))

RECURSIVE JoinSep(_, _)
\* sep.join(list of str)
JoinSep(sep, frags) ==
    IF frags = <<>> THEN <<>>
    ELSE IF Len(frags) = 1 THEN Head(frags)
    ELSE Head(frags) \o sep \o JoinSep(sep, Tail(frags))

\* dict(attrs).get(k, None): the last pair with key k wins
DictGet(attrs, k) ==
    IF \E i \in 1..Len(attrs) : attrs[i][1] = k
    THEN attrs[CHOOSE i \in 1..Len(attrs) :
                  /\ attrs[i][1] = k
                  /\ \A j \in (i+1)..Len(attrs) : attrs[j][1] # k][2]
    ELSE None

\* ---- ElementsBy ----
\* the extraction state before the first event
ElementsByInit == [inside |-> FALSE, elts |-> <<>>, result |-> <<>>, err |-> None]

\* the two conditions of handle_starttag that set self._inside
CriterionMatches(c, tag, attrs) ==
    \/ c.filter_by = ATTRIBUTE /\ DictGet(attrs, c.name) = c.value
    \/ c.filter_by = TAG /\ tag = c.name

\* '<%s%s%s>' % (tag, ' ' if attrs else '', ' '.join('%s="%s"' % (k, v) ...))
StartTagStr(tag, attrs) ==
    <<"<", tag>> \o (IF attrs # <<>> THEN <<" ">> ELSE <<>>)
      \o JoinSep(<<" ">>, [i \in 1..Len(attrs) |->
                              <<attrs[i][1], "=", "\"", attrs[i][2], "\"">>])
      \o <<">">>

\* '</%s>' % (tag,)
EndTagStr(tag) == <<"</", tag, ">">>

\* variant: only the first match opens a capture
handle_starttag_FirstOnly(c, st, tag, attrs) ==
    LET ins == IF CriterionMatches(c, tag, attrs) /\ st.result = <<>>
               THEN TRUE ELSE st.inside
    IN  IF ins
        THEN [st EXCEPT !.inside = TRUE,
                        !.result = Append(st.result, StartTagStr(tag, attrs)),
                        !.elts = Append(st.elts, tag)]
        ELSE st

\* variant: a nested startTag is recorded only when it matches itself
handle_starttag_OnlyMatching(c, st, tag, attrs) ==
    IF CriterionMatches(c, tag, attrs)
    THEN [st EXCEPT !.inside = TRUE,
                    !.result = Append(st.result, StartTagStr(tag, attrs)),
                    !.elts = Append(st.elts, tag)]
    ELSE st

handle_starttag(c, st, tag, attrs) ==
    LET ins == IF CriterionMatches(c, tag, attrs) THEN TRUE ELSE st.inside
    IN  IF ins
        THEN [st EXCEPT !.inside = TRUE,
                        !.result = Append(st.result, StartTagStr(tag, attrs)),
                        !.elts = Append(st.elts, tag)]
        ELSE st

\* list.pop(): IndexError on an empty list
RECURSIVE PopWhile(_, _, _)
\* while t != tag and self._elts: t = self._elts.pop()
PopWhile(t, tag, es) ==
    IF t # tag /\ es # <<>> THEN PopWhile(Last(es), tag, Front(es)) ELSE es

\* variant: no "tag in self._elts" test before the first pop
PopElts_Unguarded(st, tag) ==
    IF st.elts = <<>>
    THEN [st EXCEPT !.err = "IndexError"]
    ELSE [st EXCEPT !.elts = PopWhile(Last(st.elts), tag, Front(st.elts))]

\* variant: pop until the tag is found, without any test of the list
PopElts_UntilFound(st, tag) ==
    IF InList(tag, st.elts)
    THEN [st EXCEPT !.elts = PopWhile(Last(st.elts), tag, Front(st.elts))]
    ELSE [st EXCEPT !.elts = <<>>, !.err = "IndexError"]

\* if tag in self._elts: t = self._elts.pop(); while ...
PopElts(st, tag) ==
    IF InList(tag, st.elts)
    THEN IF st.elts = <<>>
         THEN [st EXCEPT !.err = "IndexError"]
         ELSE [st EXCEPT !.elts = PopWhile(Last(st.elts), tag, Front(st.elts))]
    ELSE st

\* variant: the capture is closed as soon as an open tag is closed
handle_endtag_CloseOnMatch(st, tag) ==
    IF st.inside
    THEN LET s1 == [st EXCEPT !.result = Append(st.result, EndTagStr(tag))]
             s2 == PopElts(s1, tag)
         IN  IF s2.err # None THEN s2
             ELSE IF s2.elts # s1.elts THEN [s2 EXCEPT !.inside = FALSE] ELSE s2
    ELSE st

\* variant: the closing tag is recorded without looking at self._inside
handle_endtag_Unconditional(st, tag) ==
    LET s1 == [st EXCEPT !.result = Append(st.result, EndTagStr(tag))]
        s2 == PopElts(s1, tag)
    IN  IF s2.err # None THEN s2
        ELSE IF s2.elts = <<>> THEN [s2 EXCEPT !.inside = FALSE] ELSE s2

\* variant: self._inside is never cleared
handle_endtag_NeverCloses(st, tag) ==
    IF st.inside
    THEN PopElts([st EXCEPT !.result = Append(st.result, EndTagStr(tag))], tag)
    ELSE st

handle_endtag(st, tag) ==
    IF st.inside
    THEN LET s1 == [st EXCEPT !.result = Append(st.result, EndTagStr(tag))]
             s2 == PopElts(s1, tag)
         IN  IF s2.err # None THEN s2
             ELSE IF s2.elts = <<>> THEN [s2 EXCEPT !.inside = FALSE] ELSE s2
    ELSE st

\* variant: the test of self._inside is inverted
handle_data_Inverted(st, text) ==
    IF ~st.inside THEN [st EXCEPT !.result = Append(st.result, text)] ELSE st

\* variant: text is merged into the fragment before it
handle_data_Merge(st, text) ==
    IF st.inside
    THEN [st EXCEPT !.result = Append(Front(st.result), Last(st.result) \o text)]
    ELSE st

handle_data(st, text) ==
    IF st.inside THEN [st EXCEPT !.result = Append(st.result, text)] ELSE st

get_html(res) == Join(res)

\* ---- token events (the tokenizer is outside the model) ----
TagNames == {"div", "span"}
\* the (tag, attrs) pairs of the startTag events
StartTags == {<<"div", <<>> >>, <<"div", << <<"id", "x">> >> >>,
              <<"span", <<>> >>, <<"span", << <<"id", "y">> >> >>}
Texts == {<<"A">>}
Criteria == {[filter_by |-> ATTRIBUTE, name |-> "id", value |-> "x"],
             [filter_by |-> TAG, name |-> "div", value |-> None]}

StartEv(tag, attrs) == [type |-> "start", tag |-> tag, attrs |-> attrs, data |-> <<>>]
EndEv(tag) == [type |-> "end", tag |-> tag, attrs |-> <<>>, data |-> <<>>]
DataEv(d) == [type |-> "data", tag |-> None, attrs |-> <<>>, data |-> d]

(***************************************************************************)
(* Vocabulary for the statements about the extractor                       *)
(***************************************************************************)
\* HTMLParser.feed: the events go to the handlers in order
RECURSIVE Feed(_, _, _)
Feed(c, st, evs) ==
    IF evs = <<>> \/ st.err # None THEN st
    ELSE LET ev == Head(evs)
             s1 == CASE ev.type = "start" -> handle_starttag(c, st, ev.tag, ev.attrs)
                      [] ev.type = "end" -> handle_endtag(st, ev.tag)
                      [] OTHER -> handle_data(st, ev.data)
         IN  Feed(c, s1, Tail(evs))

\* the extraction state after the first k events of fed
After(k) == Feed(crit, ElementsByInit, SubSeq(fed, 1, k))
\* the extraction state before the last event of fed
Prev == After(Len(fed) - 1)
LastEv == Last(fed)

\* the serialization of one event
Ser(ev) == CASE ev.type = "start" -> StartTagStr(ev.tag, ev.attrs)
             [] ev.type = "end" -> EndTagStr(ev.tag)
             [] OTHER -> ev.data

\* the stack left by popping from the top until an entry equal to tag has
\* been popped or the stack is empty
PoppedUntil(es, tag) ==
    IF InList(tag, es)
    THEN SubSeq(es, 1, (CHOOSE i \in 1..Len(es) :
                           es[i] = tag /\ \A j \in (i+1)..Len(es) : es[j] # tag) - 1)
    ELSE <<>>

IsEnd(e) == e.type = "end"
IsStart(e) == e.type = "start"
Matching(e) == IsStart(e) /\ CriterionMatches(crit, e.tag, e.attrs)


(***************************************************************************)
(* Filter units                                                            *)
(***************************************************************************)
\* an empty Python dict; a dict is a function from its keys
EmptyDict == [k \in {} |-> None]
DictPop(d, key) == [k \in (DOMAIN d) \ {key} |-> d[k]]

\* what a call gives back
Return(v) == [type |-> "return", exc |-> None, value |-> v]
Raise(e) == [type |-> "raise", exc |-> e, value |-> <<>>]

\* the subfilter argument: None, a str or a dict
SfNone == [shape |-> "None", str |-> None, dict |-> EmptyDict]
SfStr(x) == [shape |-> "str", str |-> x, dict |-> EmptyDict]
SfDict(d) == [shape |-> "dict", str |-> None, dict |-> d]

\* the keys of an options dict in a fixed order, to print it
OptionKeys == <<"method", "width">>
RECURSIVE DictStr(_, _)
DictStr(d, i) ==
    IF i > Len(OptionKeys) THEN <<>>
    ELSE (IF OptionKeys[i] \in DOMAIN d THEN <<OptionKeys[i], "=", d[OptionKeys[i]], ";">> ELSE <<>>)
           \o DictStr(d, i + 1)

\* the value of a collaborator that is outside the model (html2text,
\* ical2text, re.search, hashlib, ...): a term over its arguments
Opaque(fn, arg, d) == <<fn, "[">> \o arg \o <<"](">> \o d \o <<")">>

\* variant: only a dict argument is refused
no_subfilters_OnlyDict(sf) ==
    IF sf.shape = "dict" THEN Raise("ValueError: No subfilters supported") ELSE Return(<<>>)

\* FilterBase._no_subfilters
no_subfilters(sf) ==
    IF sf.shape # "None" THEN Raise("ValueError: No subfilters supported") ELSE Return(<<>>)

\* a filter() call gives its outcome and leaves the argument object in a state
Gives(out, sf) == [out |-> out, subfilter |-> sf]

Html2TextFilter_filter(d, sf) ==
    CASE sf.shape = "None" -> Gives(Return(Opaque("html2text", <<"re", ";">>, d)), sf)
      [] sf.shape = "dict" ->
            IF "method" \in DOMAIN sf.dict
            THEN LET options == DictPop(sf.dict, "method")
                 IN  Gives(Return(Opaque("html2text",
                                         <<sf.dict["method"], ";">> \o DictStr(options, 1), d)),
                           SfDict(options))
            ELSE Gives(Raise("KeyError: method"), sf)
      [] OTHER -> Gives(Return(Opaque("html2text", <<sf.str, ";">>, d)), sf)

NoSubfilterFilter(fn, d, sf) ==
    IF no_subfilters(sf).type = "raise" THEN Gives(no_subfilters(sf), sf)
    ELSE Gives(Return(Opaque(fn, <<>>, d)), sf)

Ical2TextFilter_filter(d, sf) == NoSubfilterFilter("ical2text", d, sf)
StripFilter_filter(d, sf) == NoSubfilterFilter("strip", d, sf)
Sha1Filter_filter(d, sf) == NoSubfilterFilter("sha1", d, sf)
HexdumpFilter_filter(d, sf) == NoSubfilterFilter("hexdump", d, sf)

\* GrepFilter.filter and InverseGrepFilter.filter; re.search takes a str
RegexLinesFilter(fn, msg, d, sf) ==
    CASE sf.shape = "None" -> Gives(Raise(msg), sf)
      [] sf.shape = "dict" -> Gives(Raise("TypeError"), sf)
      [] OTHER -> Gives(Return(Opaque(fn, <<sf.str>>, d)), sf)

GrepFilter_filter(d, sf) ==
    RegexLinesFilter("grep", "ValueError: The grep filter needs a regular expression", d, sf)
InverseGrepFilter_filter(d, sf) ==
    RegexLinesFilter("grepi", "ValueError: The inverse grep filter needs a regular expression", d, sf)

\* the HTML documents of the model, as token streams, and their text
Docs == {<<StartEv("span", <<>>), DataEv(<<"A">>), EndEv("span")>>,
         <<StartEv("div", << <<"id", "x">> >>), DataEv(<<"A">>), EndEv("div"),
           DataEv(<<"A">>)>>}
RECURSIVE SerAll(_)
SerAll(evs) == IF evs = <<>> THEN <<>> ELSE Ser(Head(evs)) \o SerAll(Tail(evs))
\* html.parser's tokenizer: the events of a document, text for anything else
Tokenize(d) ==
    IF \E doc \in Docs : SerAll(doc) = d
    THEN CHOOSE doc \in Docs : SerAll(doc) = d
    ELSE IF d = <<>> THEN <<>> ELSE <<DataEv(d)>>

\* ElementsBy(filter_by, name, value); feed(data); get_html()
Extract(c, d) == get_html(Feed(c, ElementsByInit, Tokenize(d)).result)

\* variant: no test of subfilter is None before the extractor is built
GetElementByAttr_NoCheck(attr, msg, d, sf) ==
    CASE sf.shape = "dict" -> Gives(Return(<<>>), sf)
      [] OTHER -> Gives(Return(Extract([filter_by |-> ATTRIBUTE, name |-> attr,
                                        value |-> sf.str], d)), sf)

\* GetElementById/Class/Style.filter; no attribute value equals a dict
GetElementByAttr(attr, msg, d, sf) ==
    CASE sf.shape = "None" -> Gives(Raise(msg), sf)
      [] sf.shape = "dict" -> Gives(Return(<<>>), sf)
      [] OTHER -> Gives(Return(Extract([filter_by |-> ATTRIBUTE, name |-> attr,
                                        value |-> sf.str], d)), sf)

GetElementById_filter(d, sf) ==
    GetElementByAttr("id", "ValueError: Need an element ID for filtering", d, sf)
GetElementByClass_filter(d, sf) ==
    GetElementByAttr("class", "ValueError: Need an element class for filtering", d, sf)
GetElementByStyle_filter(d, sf) ==
    GetElementByAttr("style", "ValueError: Need an element style for filtering", d, sf)
GetElementByTag_filter(d, sf) ==
    CASE sf.shape = "None" -> Gives(Raise("ValueError: Need a tag for filtering"), sf)
      [] sf.shape = "dict" -> Gives(Return(<<>>), sf)
      [] OTHER -> Gives(Return(Extract([filter_by |-> TAG, name |-> sf.str,
                                        value |-> None], d)), sf)

\* LegacyHooksPyFilter.__init__: self.hooks is the loaded module or None
HooksFiles == {"missing", "broken", "result", "none", "raises"}
HooksLoaded(hf) == hf \notin {"missing", "broken"}

\* LegacyHooksPyFilter.filter: a failing hook is logged and data returned
LegacyHooksPyFilter_filter(hf, d, sf) ==
    CASE hf = "result" -> Gives(Return(Opaque("hooks.filter", <<>>, d)), sf)
      [] hf = "none" -> Gives(Return(d), sf)
      [] OTHER -> Gives(Return(d), sf)

\* filter() of the classes a hooks.py of the model defines
UserFilter(name, d, sf) ==
    IF name = "UserRaises" THEN Gives(Raise("RuntimeError"), sf)
    ELSE Gives(Return(Opaque(name, <<>>, d)), sf)

\* ---- the classes ----
Class(name, kind, base, hasMatch, match) ==
    [name |-> name, kind |-> kind, base |-> base, hasMATCH |-> hasMatch, MATCH |-> match]

BuiltinNamed ==
    {Class("Html2TextFilter", <<"h", "t", "m", "l", "2", "t", "e", "x", "t">>, "FilterBase", FALSE, EmptyDict),
     Class("Ical2TextFilter", <<"i", "c", "a", "l", "2", "t", "e", "x", "t">>, "FilterBase", FALSE, EmptyDict),
     Class("GrepFilter", <<"g", "r", "e", "p">>, "FilterBase", FALSE, EmptyDict),
     Class("InverseGrepFilter", <<"g", "r", "e", "p", "i">>, "FilterBase", FALSE, EmptyDict),
     Class("StripFilter", <<"s", "t", "r", "i", "p">>, "FilterBase", FALSE, EmptyDict),
     Class("GetElementById", <<"e", "l", "e", "m", "e", "n", "t", "-", "b", "y", "-", "i", "d">>, "FilterBase", FALSE, EmptyDict),
     Class("GetElementByClass", <<"e", "l", "e", "m", "e", "n", "t", "-", "b", "y", "-", "c", "l", "a", "s", "s">>, "FilterBase", FALSE, EmptyDict),
     Class("GetElementByStyle", <<"e", "l", "e", "m", "e", "n", "t", "-", "b", "y", "-", "s", "t", "y", "l", "e">>, "FilterBase", FALSE, EmptyDict),
     Class("GetElementByTag", <<"e", "l", "e", "m", "e", "n", "t", "-", "b", "y", "-", "t", "a", "g">>, "FilterBase", FALSE, EmptyDict),
     Class("Sha1Filter", <<"s", "h", "a", "1", "s", "u", "m">>, "FilterBase", FALSE, EmptyDict),
     Class("HexdumpFilter", <<"h", "e", "x", "d", "u", "m", "p">>, "FilterBase", FALSE, EmptyDict)}
BuiltinAnonymous ==
    <<Class("AutoMatchFilter", <<>>, "AutoMatchFilter", FALSE, EmptyDict),
      Class("RegexMatchFilter", <<>>, "RegexMatchFilter", FALSE, EmptyDict),
      Class("LegacyHooksPyFilter", <<>>, "LegacyHooksPyFilter", FALSE, EmptyDict)>>

\* classes of a hooks.py: named and anonymous subclasses with a MATCH
UrlIs(u) == [k \in {"url"} |-> u]
UserNamed ==
    {Class("UserA", <<"a", "a">>, "AutoMatchFilter", TRUE, UrlIs("u1")),
     Class("UserG", <<"g", "r">>, "AutoMatchFilter", TRUE, UrlIs("u1")),
     Class("UserRaises", <<"z">>, "AutoMatchFilter", TRUE, UrlIs("u1"))}
UserAnonymous ==
    {Class("UserAnon", <<>>, "AutoMatchFilter", TRUE, UrlIs("u1")),
     Class("UserAnonName", <<>>, "AutoMatchFilter", TRUE,
           [k \in {"url", "name"} |-> IF k = "url" THEN "u1" ELSE "n1"])}

Jobs == {UrlIs("u1"), UrlIs("u2"),
         [k \in {"url", "name"} |-> IF k = "url" THEN "u1" ELSE "n1"]}

\* d.get(k, None)
Get(d, key) == IF key \in DOMAIN d THEN d[key] ELSE None

\* FilterBase.match
FilterBase_match == FALSE
\* variant: no test of MATCH is None
AutoMatchFilter_match_NoNoneTest(cls, j) ==
    \A key \in DOMAIN cls.MATCH : Get(j, key) = cls.MATCH[key]

\* variant: keys that the job does not have are skipped
AutoMatchFilter_match_SkipAbsent(cls, j) ==
    IF ~cls.hasMATCH THEN FALSE
    ELSE \A key \in (DOMAIN cls.MATCH) \cap (DOMAIN j) : j[key] = cls.MATCH[key]

\* AutoMatchFilter.match
AutoMatchFilter_match(cls, j) ==
    IF ~cls.hasMATCH THEN FALSE
    ELSE \A key \in DOMAIN cls.MATCH : Get(j, key) = cls.MATCH[key]
\* the strings that each compiled pattern of the model accepts at their start
Language(p) ==
    CASE p = "u." -> {"u1", "u2"}
      [] p = "u1" -> {"u1"}
      [] p = "n." -> {"n1", "n2"}
      [] p = "n1" -> {"n1"}
      [] OTHER -> {}
\* v.match(d[k]) is not None
re_match(p, v) == v \in Language(p)

\* variant: an empty list of matches counts as a match
RegexMatchFilter_match_AllOnly(cls, j) ==
    IF ~cls.hasMATCH THEN FALSE
    ELSE LET present == {key \in DOMAIN cls.MATCH : key \in DOMAIN j}
         IN  \A key \in present : re_match(cls.MATCH[key], j[key])

\* RegexMatchFilter.match
RegexMatchFilter_match(cls, j) ==
    IF ~cls.hasMATCH THEN FALSE
    ELSE LET present == {key \in DOMAIN cls.MATCH : key \in DOMAIN j}
         IN  present # {} /\ \A key \in present : re_match(cls.MATCH[key], j[key])
\* LegacyHooksPyFilter.match
LegacyHooksPyFilter_match(hf) == HooksLoaded(hf)

\* filter_instance.match()
Match(cls, j, hf) ==
    CASE cls.base = "AutoMatchFilter" -> AutoMatchFilter_match(cls, j)
      [] cls.base = "RegexMatchFilter" -> RegexMatchFilter_match(cls, j)
      [] cls.base = "LegacyHooksPyFilter" -> LegacyHooksPyFilter_match(hf)
      [] OTHER -> FilterBase_match

\* filter_instance.filter(data, subfilter)
Filter(cls, d, sf, hf) ==
    CASE cls.name = "Html2TextFilter" -> Html2TextFilter_filter(d, sf)
      [] cls.name = "Ical2TextFilter" -> Ical2TextFilter_filter(d, sf)
      [] cls.name = "GrepFilter" -> GrepFilter_filter(d, sf)
      [] cls.name = "InverseGrepFilter" -> InverseGrepFilter_filter(d, sf)
      [] cls.name = "StripFilter" -> StripFilter_filter(d, sf)
      [] cls.name = "GetElementById" -> GetElementById_filter(d, sf)
      [] cls.name = "GetElementByClass" -> GetElementByClass_filter(d, sf)
      [] cls.name = "GetElementByStyle" -> GetElementByStyle_filter(d, sf)
      [] cls.name = "GetElementByTag" -> GetElementByTag_filter(d, sf)
      [] cls.name = "Sha1Filter" -> Sha1Filter_filter(d, sf)
      [] cls.name = "HexdumpFilter" -> HexdumpFilter_filter(d, sf)
      [] cls.name = "LegacyHooksPyFilter" -> LegacyHooksPyFilter_filter(hf, d, sf)
      [] cls.name \in {"AutoMatchFilter", "RegexMatchFilter"} ->
            Gives(Raise("NotImplementedError"), sf)
      [] OTHER -> UserFilter(cls.name, d, sf)

\* ---- ordering of kind names: str comparison by code point ----
CodePoints == <<"-", "1", "2", "a", "b", "c", "d", "e", "g", "h", "i", "l", "m",
                "n", "o", "p", "r", "s", "t", "u", "x", "y", "z">>
Ord(ch) == CHOOSE i \in 1..Len(CodePoints) : CodePoints[i] = ch
RECURSIVE StrLess(_, _)
StrLess(a, b) ==
    IF b = <<>> THEN FALSE
    ELSE IF a = <<>> THEN TRUE
    ELSE IF Head(a) = Head(b) THEN StrLess(Tail(a), Tail(b))
    ELSE Ord(Head(a)) < Ord(Head(b))

RECURSIVE SortedKinds_Descending(_)
\* variant: sorted(..., reverse=True)
SortedKinds_Descending(ks) ==
    IF ks = {} THEN <<>>
    ELSE LET m == CHOOSE x \in ks : \A y \in ks \ {x} : StrLess(y, x)
         IN  <<m>> \o SortedKinds_Descending(ks \ {m})

RECURSIVE SortedKinds(_)
\* the keys of sorted(cls.__subclasses__.items(), key=lambda k_v: k_v[0])
SortedKinds(ks) ==
    IF ks = {} THEN <<>>
    ELSE LET m == CHOOSE x \in ks : \A y \in ks \ {x} : StrLess(x, y)
         IN  <<m>> \o SortedKinds(ks \ {m})

\* itertools.chain(named classes sorted by kind, anonymous classes)
Chain(named, anon) ==
    LET ks == SortedKinds(DOMAIN named)
    IN  [i \in 1..Len(ks) |-> named[ks[i]]] \o anon

(***************************************************************************)
(* Spec: one ElementsBy instance fed one token stream                      *)
(***************************************************************************)
\* the dispatch variables when no entry point is modelled
DispatchUnused ==
    /\ subclasses = EmptyDict /\ anonymous_subclasses = <<>>
    /\ job = EmptyDict /\ hooksfile = "missing"
    /\ input = <<>> /\ subfilter = SfNone
    /\ pc = "idle" /\ filters = <<>> /\ data = <<>>
    /\ calls = <<>> /\ outcomes = <<>>

State == [inside |-> inside, elts |-> elts, result |-> result, err |-> err]

Become(st) ==
    /\ inside' = st.inside
    /\ elts' = st.elts
    /\ result' = st.result
    /\ err' = st.err

CanFeed == Len(fed) < MaxEvents /\ err = None

Init ==
    /\ crit \in Criteria
    /\ fed = <<>>
    /\ inside = ElementsByInit.inside
    /\ elts = ElementsByInit.elts
    /\ result = ElementsByInit.result
    /\ err = ElementsByInit.err
    /\ DispatchUnused

StartTag ==
    /\ CanFeed
    /\ \E ta \in StartTags :
          /\ fed' = Append(fed, StartEv(ta[1], ta[2]))
          /\ Become(handle_starttag(crit, State, ta[1], ta[2]))
    /\ UNCHANGED <<crit, dvars>>

EndTag ==
    /\ CanFeed
    /\ \E tag \in TagNames :
          /\ fed' = Append(fed, EndEv(tag))
          /\ Become(handle_endtag(State, tag))
    /\ UNCHANGED <<crit, dvars>>

Data ==
    /\ CanFeed
    /\ \E d \in Texts :
          /\ fed' = Append(fed, DataEv(d))
          /\ Become(handle_data(State, d))
    /\ UNCHANGED <<crit, dvars>>

Next == StartTag \/ EndTag \/ Data

Spec == Init /\ [][Next]_vars


(***************************************************************************)
(* FilterBase.auto_process and FilterBase.process                          *)
(***************************************************************************)
\* one entry of calls: an entry point, a constructor, match() or filter()
Call(op, cls, d, sf, out) ==
    [op |-> op, cls |-> cls.name, kind |-> cls.kind, data |-> d, sf |-> sf, out |-> out]
NoClass == Class(None, <<>>, None, FALSE, EmptyDict)
Bool(b) == IF b THEN <<"True">> ELSE <<"False">>

\* variant: an exception of filter() is swallowed and the loop goes on
auto_process_body_Swallow(cls, d, j, hf) ==
    LET made == <<Call("init", cls, <<>>, SfNone, Return(<<>>)),
                  Call("match", cls, <<>>, SfNone, Return(Bool(Match(cls, j, hf))))>>
    IN  IF Match(cls, j, hf)
        THEN LET r == Filter(cls, d, SfNone, hf)
             IN  [calls |-> Append(made, Call("filter", cls, d, SfNone, r.out)),
                  out |-> IF r.out.type = "raise" THEN Return(d) ELSE r.out]
        ELSE [calls |-> made, out |-> Return(d)]

\* variant: filter() is called without the subfilter
process_DropsSubfilter(named, filter_kind, sf, d, hf) ==
    IF filter_kind \notin DOMAIN named
    THEN [calls |-> <<>>, subfilter |-> sf,
          out |-> Raise("ValueError: Unknown filter kind")]
    ELSE LET cls == named[filter_kind]
             r == Filter(cls, d, SfNone, hf)
         IN  [calls |-> <<Call("init", cls, <<>>, SfNone, Return(<<>>)),
                          Call("filter", cls, d, SfNone, r.out)>>,
              subfilter |-> sf,
              out |-> r.out]

\* variant: an unknown kind gives the content back
process_Lenient(named, filter_kind, sf, d, hf) ==
    IF filter_kind \notin DOMAIN named
    THEN [calls |-> <<>>, subfilter |-> sf, out |-> Return(d)]
    ELSE LET cls == named[filter_kind]
             r == Filter(cls, d, sf, hf)
         IN  [calls |-> <<Call("init", cls, <<>>, SfNone, Return(<<>>)),
                          Call("filter", cls, d, sf, r.out)>>,
              subfilter |-> r.subfilter,
              out |-> r.out]

\* one iteration of the for loop of auto_process over class cls with the
\* working content d: the calls it makes, and the new content or the
\* exception that leaves the loop
auto_process_body(cls, d, j, hf) ==
    LET made == <<Call("init", cls, <<>>, SfNone, Return(<<>>)),
                  Call("match", cls, <<>>, SfNone, Return(Bool(Match(cls, j, hf))))>>
    IN  IF Match(cls, j, hf)
        THEN LET r == Filter(cls, d, SfNone, hf)
             IN  [calls |-> Append(made, Call("filter", cls, d, SfNone, r.out)),
                  out |-> r.out]
        ELSE [calls |-> made, out |-> Return(d)]

\* process(filter_kind, subfilter, state, data)
process(named, filter_kind, sf, d, hf) ==
    IF filter_kind \notin DOMAIN named
    THEN [calls |-> <<>>, subfilter |-> sf,
          out |-> Raise("ValueError: Unknown filter kind")]
    ELSE LET cls == named[filter_kind]
             r == Filter(cls, d, sf, hf)
         IN  [calls |-> <<Call("init", cls, <<>>, SfNone, Return(<<>>)),
                          Call("filter", cls, d, sf, r.out)>>,
              subfilter |-> r.subfilter,
              out |-> r.out]

\* ---- inputs ----
Contents == {SerAll(doc) : doc \in Docs}
Subfilters == {SfNone, SfStr("x"), SfStr("div"),
               SfDict([k \in {"method"} |-> "re"]),
               SfDict([k \in {"method", "width"} |-> IF k = "method" THEN "re" ELSE "80"]),
               SfDict([k \in {"width"} |-> "80"])}
KindNonexistent == <<"n", "o", "n", "e", "x", "i", "s", "t", "e", "n", "t">>
ProcessKinds == {c.kind : c \in BuiltinNamed \cup UserNamed} \cup {KindNonexistent}
\* the orders in which a hooks.py can define anonymous classes
UserAnonymousOrders ==
    {<<>>} \cup {<<c>> : c \in UserAnonymous}
           \cup {<<c, CHOOSE e \in UserAnonymous : e # c>> : c \in UserAnonymous}
Registry(cs) == [kd \in {c.kind : c \in cs} |-> CHOOSE c \in cs : c.kind = kd]

\* the extractor variables when no extractor is modelled
ExtractorUnused ==
    /\ crit = [filter_by |-> TAG, name |-> None, value |-> None]
    /\ fed = <<>> /\ inside = FALSE /\ elts = <<>> /\ result = <<>> /\ err = None

InitDispatch ==
    /\ ExtractorUnused
    /\ \E un \in SUBSET UserNamed : subclasses = Registry(BuiltinNamed \cup un)
    /\ \E ua \in UserAnonymousOrders : anonymous_subclasses = BuiltinAnonymous \o ua
    /\ job \in Jobs
    /\ hooksfile \in HooksFiles
    /\ input \in Contents
    /\ subfilter = SfNone
    /\ pc = "idle" /\ filters = <<>> /\ data = <<>>
    /\ calls = <<>> /\ outcomes = <<>>

\* the calls of the entry point call that is running or was made last
IsEntry(c) == c.op \in {"auto_process", "process"}
RunStart == CHOOSE i \in 1..Len(calls) :
                IsEntry(calls[i]) /\ \A k \in (i+1)..Len(calls) : ~IsEntry(calls[k])
RunCalls == IF calls = <<>> THEN <<>> ELSE SubSeq(calls, RunStart, Len(calls))

\* auto_process may be called when nothing runs: first, or again after an
\* auto_process call has returned or raised
CanCallAuto ==
    \/ pc = "idle"
    \/ pc = "done" /\ calls[1].op = "auto_process" /\ Len(outcomes) < MaxCalls

\* variant: the named classes are iterated in the order of the dict, which
\* is not the same in every run
AutoBegin_DictOrder ==
    /\ CanCallAuto
    /\ pc' = "auto"
    /\ filters' \in {Chain(subclasses, anonymous_subclasses),
                     LET ks == SortedKinds_Descending(DOMAIN subclasses)
                     IN  [i \in 1..Len(ks) |-> subclasses[ks[i]]] \o anonymous_subclasses}
    /\ data' = input
    /\ calls' = Append(calls, Call("auto_process", NoClass, input, SfNone, Return(<<>>)))
    /\ UNCHANGED <<xvars, subclasses, anonymous_subclasses, job, hooksfile, input,
                   subfilter, outcomes>>

\* auto_process is entered: the iterator is built, data is the argument
AutoBegin ==
    /\ CanCallAuto
    /\ pc' = "auto"
    /\ filters' = Chain(subclasses, anonymous_subclasses)
    /\ data' = input
    /\ calls' = Append(calls, Call("auto_process", NoClass, input, SfNone, Return(<<>>)))
    /\ UNCHANGED <<xvars, subclasses, anonymous_subclasses, job, hooksfile, input,
                   subfilter, outcomes>>

\* one iteration of the loop of auto_process
AutoStep ==
    /\ pc = "auto" /\ filters # <<>>
    /\ LET b == auto_process_body(Head(filters), data, job, hooksfile)
       IN  /\ calls' = calls \o b.calls
           /\ IF b.out.type = "raise"
              THEN /\ pc' = "done"
                   /\ outcomes' = Append(outcomes, b.out)
                   /\ UNCHANGED <<filters, data>>
              ELSE /\ data' = b.out.value
                   /\ filters' = Tail(filters)
                   /\ UNCHANGED <<pc, outcomes>>
    /\ UNCHANGED <<xvars, subclasses, anonymous_subclasses, job, hooksfile, input,
                   subfilter>>

\* return data
AutoReturn ==
    /\ pc = "auto" /\ filters = <<>>
    /\ pc' = "done"
    /\ outcomes' = Append(outcomes, Return(data))
    /\ UNCHANGED <<xvars, subclasses, anonymous_subclasses, job, hooksfile, input,
                   subfilter, filters, data, calls>>

\* one call of process with a kind and a subfilter argument
Process ==
    /\ pc = "idle"
    /\ \E kd \in ProcessKinds, sf \in Subfilters :
          LET r == process(subclasses, kd, sf, input, hooksfile)
          IN  /\ calls' = <<[Call("process", NoClass, input, sf, Return(<<>>))
                               EXCEPT !.kind = kd]>> \o r.calls
              /\ subfilter' = r.subfilter
              /\ outcomes' = Append(outcomes, r.out)
    /\ pc' = "done"
    /\ UNCHANGED <<xvars, subclasses, anonymous_subclasses, job, hooksfile, input,
                   filters, data>>

NextDispatch == AutoBegin \/ AutoStep \/ AutoReturn \/ Process

SpecDispatch == InitDispatch /\ [][NextDispatch]_vars

(***************************************************************************)
(* SpecFilter: filter() of one unit called repeatedly with one argument     *)
(* object                                                                  *)
(***************************************************************************)
UnitClasses == BuiltinNamed \cup {BuiltinAnonymous[i] : i \in 1..Len(BuiltinAnonymous)}

InitFilter ==
    /\ ExtractorUnused
    /\ subclasses = EmptyDict /\ anonymous_subclasses = <<>>
    /\ job \in Jobs
    /\ \E cls \in UnitClasses :
          /\ filters = <<cls>>
          /\ hooksfile \in (IF cls.name = "LegacyHooksPyFilter"
                            THEN {hf \in HooksFiles : HooksLoaded(hf)} ELSE {"missing"})
    /\ input \in Contents
    /\ subfilter \in Subfilters
    /\ pc = "idle" /\ data = <<>>
    /\ calls = <<>> /\ outcomes = <<>>

\* filtercls(job, state).filter(input, subfilter)
CallFilter ==
    /\ Len(outcomes) < MaxCalls
    /\ LET r == Filter(Head(filters), input, subfilter, hooksfile)
       IN  /\ calls' = Append(calls, Call("filter", Head(filters), input, subfilter, r.out))
           /\ subfilter' = r.subfilter
           /\ outcomes' = Append(outcomes, r.out)
    /\ UNCHANGED <<xvars, subclasses, anonymous_subclasses, job, hooksfile, input,
                   pc, filters, data>>

NextFilter == CallFilter

SpecFilter == InitFilter /\ [][NextFilter]_vars

\* C1 (as stated): an endTag received INSIDE appends the closing tag and pops
\* until an entry equal to the name has been popped or the stack is empty, so
\* a name that is nowhere on the stack empties it and closes the capture.
C1_AsStated ==
    [][(inside /\ fed' # fed /\ IsEnd(Last(fed'))) =>
          /\ result' = Append(result, EndTagStr(Last(fed').tag))
          /\ elts' = PoppedUntil(elts, Last(fed').tag)
          /\ inside' = (elts' # <<>>)]_vars

\* C1 (amended): an endTag received INSIDE appends the closing tag; when the
\* name occurs on tagStack, entries are popped until an entry equal to it has
\* been popped; when it occurs nowhere on tagStack the stack is left as it is
\* and the extractor stays INSIDE; it becomes OUTSIDE iff the stack is empty.
C1_EndTagPops ==
    [][(inside /\ fed' # fed /\ IsEnd(Last(fed'))) =>
          /\ result' = Append(result, EndTagStr(Last(fed').tag))
          /\ elts' = IF InList(Last(fed').tag, elts)
                     THEN PoppedUntil(elts, Last(fed').tag) ELSE elts
          /\ inside' = (elts' # <<>>)
          /\ err' = None]_vars

\* an endTag whose name is nowhere on the stack arrived INSIDE, below two
\* open tags
C1_Witness ==
    /\ fed # <<>> /\ IsEnd(LastEv)
    /\ Prev.inside /\ Len(Prev.elts) = 2
    /\ ~InList(LastEv.tag, Prev.elts)
    /\ inside /\ elts = Prev.elts

\* the capture has been opened and closed again
Closed == ~inside /\ result # <<>>

\* C2 (as stated): once the extractor is back OUTSIDE, no later event moves
\* it INSIDE again or appends to output.
C2_AsStated == [][Closed => (~inside' /\ result' = result)]_vars

\* C2 (amended): once the extractor is back OUTSIDE, a later startTag that
\* satisfies the criterion moves it INSIDE again, pushes its name and appends
\* its serialization; every other event leaves the extraction state unchanged.
C2_Reopens ==
    [][(Closed /\ fed' # fed) =>
          IF Matching(Last(fed'))
          THEN /\ inside'
               /\ elts' = <<Last(fed').tag>>
               /\ result' = Append(result, Ser(Last(fed')))
          ELSE UNCHANGED <<inside, elts, result>>]_vars

\* a second matching startTag arrived after the first capture was closed
C2_Witness ==
    /\ fed # <<>> /\ Matching(LastEv)
    /\ ~Prev.inside /\ Prev.result # <<>>
    /\ inside /\ Len(result) = Len(Prev.result) + 1

\* the fragments of the events that arrived while the capture was open
RECURSIVE CapturedFrom(_)
CapturedFrom(k) ==
    IF k > Len(fed) THEN <<>>
    ELSE (IF (IsStart(fed[k]) /\ After(k).inside) \/ (~IsStart(fed[k]) /\ After(k-1).inside)
          THEN Ser(fed[k]) ELSE <<>>) \o CapturedFrom(k + 1)

\* C5: whatever events have been fed, no handler has raised, and the result
\* is the concatenation, in order, of the fragments of the events received
\* while capturing, also when the stream stops INSIDE: startTag(div),
\* text("A") with the criterion ByTag(div) gives "<div>A".
C5_PartialResult ==
    /\ err = None
    /\ get_html(result) = CapturedFrom(1)
    /\ (crit.filter_by = TAG /\ fed = <<StartEv("div", <<>>), DataEv(<<"A">>)>>)
          => get_html(result) = <<"<", "div", ">", "A">>

\* the stream startTag(div), text("A") has stopped INSIDE
C5_Witness ==
    /\ crit.filter_by = TAG
    /\ fed = <<StartEv("div", <<>>), DataEv(<<"A">>)>>
    /\ inside /\ elts = <<"div">>
    /\ get_html(result) = <<"<", "div", ">", "A">>

\* the tags are properly nested and all closed
RECURSIVE Balanced(_, _)
Balanced(evs, stack) ==
    IF evs = <<>> THEN stack = <<>>
    ELSE LET e == Head(evs)
         IN  CASE IsStart(e) -> Balanced(Tail(evs), Append(stack, e.tag))
               [] IsEnd(e) -> /\ stack # <<>> /\ Last(stack) = e.tag
                              /\ Balanced(Tail(evs), Front(stack))
               [] OTHER -> Balanced(Tail(evs), stack)

\* startTags minus endTags among fed[i..j]
Net(i, j) == Cardinality({k \in i..j : IsStart(fed[k])})
               - Cardinality({k \in i..j : IsEnd(fed[k])})
\* the index of the endTag that closes the startTag at index i
MatchEnd(i) == CHOOSE j \in (i+1)..Len(fed) :
                  Net(i, j) = 0 /\ \A k \in i..(j-1) : Net(i, k) > 0
\* the serialization of fed[i..j]
RECURSIVE SerRange(_, _)
SerRange(i, j) == IF i > j THEN <<>> ELSE Ser(fed[i]) \o SerRange(i + 1, j)

MatchingAt == {i \in 1..Len(fed) : Matching(fed[i])}
\* matching elements at depth 0 of the document
TopLevelMatches == {i \in MatchingAt : Net(1, i - 1) = 0}
\* matching elements that are not inside another matching element
OuterMatches == {i \in MatchingAt :
                    ~\E k \in MatchingAt : k < i /\ i < MatchEnd(k)}

\* the capture is exactly the element opened at index i: open from its
\* startTag up to its own endTag, closed there
CapturesExactly(i) ==
    /\ get_html(result) = SerRange(i, MatchEnd(i))
    /\ \A k \in i..(MatchEnd(i) - 1) : After(k).inside
    /\ ~After(MatchEnd(i)).inside

\* C6 (as stated): for a well-balanced stream with exactly one matching
\* element at the top level of the document, the result is exactly the
\* serialization of that element.
C6_AsStated ==
    (Balanced(fed, <<>>) /\ Cardinality(TopLevelMatches) = 1) =>
        CapturesExactly(CHOOSE i \in TopLevelMatches : TRUE)

\* C6 (amended): for a well-balanced stream with exactly one element, at any
\* depth, that satisfies the criterion and is not nested inside another
\* element satisfying it, the result is exactly the serialization of the
\* events from its startTag through its own endTag; nested startTags are
\* emitted whether or not they match, and the extractor returns to OUTSIDE
\* at the opener's own endTag and not before.
C6_SingleSubtree ==
    (Balanced(fed, <<>>) /\ Cardinality(OuterMatches) = 1) =>
        /\ CapturesExactly(CHOOSE i \in OuterMatches : TRUE)
        /\ ~inside /\ elts = <<>>

\* a captured element that holds a nested element of the same name and a
\* nested non-matching startTag, after a non-captured event
C6_Witness ==
    /\ Balanced(fed, <<>>) /\ Cardinality(OuterMatches) = 1
    /\ LET i == CHOOSE i \in OuterMatches : TRUE
       IN  /\ i > 1 /\ MatchEnd(i) = Len(fed)
           /\ \E k \in (i+1)..Len(fed) : IsStart(fed[k]) /\ fed[k].tag = fed[i].tag
           /\ get_html(result) = SerRange(i, Len(fed))

\* C7: while OUTSIDE, a text, an endTag and a startTag that does not satisfy
\* the criterion leave inside, tagStack and output unchanged.
C7_OutsideFrame ==
    [][(~inside /\ fed' # fed /\ ~Matching(Last(fed'))) =>
          UNCHANGED <<inside, elts, result, err>>]_vars

\* events before and after a closed capture did not reach the output
C7_Witness ==
    /\ Closed /\ Len(fed) >= 4
    /\ ~IsStart(fed[1]) /\ ~IsStart(LastEv)
    /\ ~Prev.inside /\ result = Prev.result
    /\ Len(result) = Len(fed) - 2

\* C8: OUTSIDE implies an empty tagStack.
C8_StackOnlyInside == ~inside => elts = <<>>

\* the extractor is back OUTSIDE after a capture that was two tags deep
C8_Witness ==
    /\ Closed /\ fed # <<>> /\ IsEnd(LastEv)
    /\ Len(Prev.elts) = 2 /\ elts = <<>>
(***************************************************************************)
(* SpecMatch: match() of one unit against a job, and against the job with  *)
(* one attribute less                                                      *)
(***************************************************************************)
\* the dicts with keys among "url" and "name"
Dicts(urls, names) ==
    {EmptyDict} \cup {[k \in {"url"} |-> u] : u \in urls}
                \cup {[k \in {"name"} |-> n] : n \in names}
                \cup {[k \in {"url", "name"} |-> IF k = "url" THEN un[1] ELSE un[2]] :
                         un \in urls \X names}
MatchJobs == Dicts({"u1", "u2"}, {"n1", "n2"})
MatchClasses ==
    {Class("AutoMatchFilter", <<>>, "AutoMatchFilter", FALSE, EmptyDict),
     Class("RegexMatchFilter", <<>>, "RegexMatchFilter", FALSE, EmptyDict)}
      \cup {Class("AutoUser", <<>>, "AutoMatchFilter", TRUE, m) :
               m \in Dicts({"u1", "u2"}, {"n1", "n2"})}
      \cup {Class("RegexUser", <<>>, "RegexMatchFilter", TRUE, m) :
               m \in Dicts({"u.", "u1"}, {"n.", "n1"})}

InitMatch ==
    /\ ExtractorUnused
    /\ subclasses = EmptyDict /\ anonymous_subclasses = <<>>
    /\ job \in MatchJobs
    /\ \E cls \in MatchClasses : filters = <<cls>>
    /\ hooksfile = "missing"
    /\ input = <<>> /\ subfilter = SfNone
    /\ pc = "idle" /\ data = <<>>
    /\ calls = <<>> /\ outcomes = <<>>

\* filtercls(job, state).match()
EvalMatch ==
    /\ pc = "idle" /\ Len(outcomes) < MaxCalls
    /\ LET b == Return(Bool(Match(Head(filters), job, hooksfile)))
       IN  /\ calls' = Append(calls, Call("match", Head(filters), <<>>, SfNone, b))
           /\ outcomes' = Append(outcomes, b)
    /\ pc' = "matched"
    /\ UNCHANGED <<xvars, subclasses, anonymous_subclasses, job, hooksfile, input,
                   subfilter, filters, data>>

\* the next job is the last one without one of its attributes; data keeps
\* the name of the attribute
RemoveKey ==
    /\ pc = "matched" /\ Len(outcomes) < MaxCalls
    /\ \E key \in DOMAIN job :
          /\ job' = DictPop(job, key)
          /\ data' = <<key>>
    /\ pc' = "idle"
    /\ UNCHANGED <<xvars, subclasses, anonymous_subclasses, hooksfile, input,
                   subfilter, filters, calls, outcomes>>

NextMatch == EvalMatch \/ RemoveKey

SpecMatch == InitMatch /\ [][NextMatch]_vars

(***************************************************************************)
(* Further statements about the extractor                                 *)
(***************************************************************************)
\* C17: every event leaves output as it is or appends fragments at its end;
\* no fragment already emitted is removed, moved, merged or rewritten.
C17_AppendOnly ==
    [][/\ Len(result') >= Len(result)
       /\ SubSeq(result', 1, Len(result)) = result
       /\ Len(result') <= Len(result) + 1]_vars

\* a text fragment was appended behind an earlier text fragment and a tag
C17_Witness ==
    /\ Len(fed) >= 3 /\ LastEv.type = "data"
    /\ Len(result) = Len(Prev.result) + 1 /\ Len(result) >= 3
    /\ SubSeq(result, 1, Len(result) - 1) = Prev.result
    /\ \E i \in 1..(Len(result) - 2) : result[i] = LastEv.data

\* C19: between events, INSIDE implies a non-empty tagStack.
C19_InsideHasStack == inside => elts # <<>>

\* the extractor is still INSIDE after an endTag that popped two entries
C19_Witness ==
    /\ fed # <<>> /\ IsEnd(LastEv)
    /\ inside /\ Len(elts) = 1
    /\ Len(Prev.elts) = 3

\* C20: the handling of an endTag never pops an empty tagStack and never
\* makes the stack deeper.
C20_EndTagPopsSafely ==
    [][(fed' # fed /\ IsEnd(Last(fed'))) =>
          /\ err' = None
          /\ Len(elts') <= Len(elts)
          /\ elts' = SubSeq(elts, 1, Len(elts'))]_vars

\* an endTag arrived INSIDE with a name that is not on a stack of depth one
C20_Witness ==
    /\ fed # <<>> /\ IsEnd(LastEv)
    /\ Prev.inside /\ Len(Prev.elts) = 1
    /\ ~InList(LastEv.tag, Prev.elts)
    /\ elts = Prev.elts /\ err = None

(***************************************************************************)
(* Statements about the dispatch entry points                              *)
(***************************************************************************)
Constructed == SelectSeq(RunCalls, LAMBDA c : c.op = "init")
Matched == SelectSeq(RunCalls, LAMBDA c : c.op = "match")
Applied == SelectSeq(RunCalls, LAMBDA c : c.op = "filter")
AutoRun == calls # <<>> /\ calls[1].op = "auto_process"
ProcessRun == calls # <<>> /\ calls[1].op = "process"
Finished == pc = "done" /\ outcomes # <<>>
Returned == Finished /\ Last(outcomes).type = "return"
NumNamed == Cardinality(DOMAIN subclasses)

\* C3: an auto_process run that returns has constructed every named class in
\* strictly ascending order of kind name, then every anonymous class in
\* registration order, each once; filter() was called exactly on those whose
\* match() was true, the first with the input, each later one with the value
\* the one before returned, and the value returned is the last one's (the
\* input when none matched).
C3_AutoFold ==
    (AutoRun /\ Returned) =>
        /\ Len(Constructed) = NumNamed + Len(anonymous_subclasses)
        /\ Len(Matched) = Len(Constructed)
        /\ \A i \in 1..NumNamed :
              /\ Constructed[i].kind \in DOMAIN subclasses
              /\ Constructed[i].cls = subclasses[Constructed[i].kind].name
        /\ \A i \in 1..NumNamed : \A k \in (i+1)..NumNamed :
              StrLess(Constructed[i].kind, Constructed[k].kind)
        /\ \A i \in 1..Len(anonymous_subclasses) :
              Constructed[NumNamed + i].cls = anonymous_subclasses[i].name
        /\ \A i \in 1..Len(Matched) : Matched[i].cls = Constructed[i].cls
        /\ LET hits == SelectSeq(Matched, LAMBDA c : c.out.value = <<"True">>)
           IN  /\ Len(Applied) = Len(hits)
               /\ \A i \in 1..Len(hits) : Applied[i].cls = hits[i].cls
        /\ \A i \in 1..Len(Applied) :
              Applied[i].data = IF i = 1 THEN input ELSE Applied[i-1].out.value
        /\ Last(outcomes).value =
              IF Applied = <<>> THEN input ELSE Last(Applied).out.value

\* a returned run in which two named classes and one anonymous class were
\* applied, the first of them sorted before a built-in kind
C3_Witness ==
    /\ AutoRun /\ Returned
    /\ Len(Applied) >= 3
    /\ Applied[1].kind # <<>> /\ Applied[2].kind # <<>>
    /\ Last(Applied).kind = <<>>
    /\ Last(outcomes).value # input
    /\ \E i \in 1..Len(Constructed) : StrLess(Applied[2].kind, Constructed[i].kind)

\* C4: process with a kind that is not a key of __subclasses__ raises the
\* ValueError "Unknown filter kind", constructs no instance, calls no
\* filter() and leaves the content and the argument as they were.
C4_UnknownKind ==
    (ProcessRun /\ calls[1].kind \notin DOMAIN subclasses) =>
        /\ outcomes = <<Raise("ValueError: Unknown filter kind")>>
        /\ Len(calls) = 1
        /\ calls[1].data = input
        /\ subfilter = calls[1].sf

\* process was called with the kind of a class that is not registered and
\* with a dict argument
C4_Witness ==
    /\ ProcessRun /\ Finished
    /\ calls[1].kind \notin DOMAIN subclasses /\ calls[1].kind # KindNonexistent
    /\ calls[1].sf.shape = "dict"
    /\ Last(outcomes).type = "raise"

\* C9: calling filter() twice in sequence with the same content and the same
\* argument object gives the same outcome both times and leaves the argument
\* as it was.
C9_ApplyIsPure ==
    Len(outcomes) = 2 => (outcomes[1] = outcomes[2] /\ subfilter = calls[1].sf)

\* the hook of hooks.py raised inside this filter() call, or the call raised
FailedInternally(c) ==
    \/ c.out.type = "raise"
    \/ c.cls = "LegacyHooksPyFilter" /\ hooksfile = "raises"

\* C10 (as stated): when the filter() of a matching unit fails internally in
\* auto_process, the failure is propagated: the run raises, that call is the
\* last one made and no content is returned.
C10_AsStated ==
    (AutoRun /\ \E i \in 1..Len(Applied) : FailedInternally(Applied[i])) =>
        /\ pc = "done"
        /\ Last(outcomes).type = "raise"
        /\ FailedInternally(Last(RunCalls))

\* C10 (amended): when the filter() of a matching unit raises in
\* auto_process, the exception is propagated to the caller, no later class
\* is constructed, matched or applied and no content is returned; the
\* exception is never the ValueError "Unknown filter kind".  The legacy hooks
\* unit does not raise when its hook fails: its filter() catches the
\* failure, returns the content it was given, and the chain goes on.
C10_FailureAborts ==
    AutoRun =>
        /\ \A i \in 1..Len(RunCalls) :
              RunCalls[i].out.type = "raise" =>
                  /\ i = Len(RunCalls) /\ RunCalls[i].op = "filter"
                  /\ pc = "done" /\ filters # <<>>
                  /\ Head(filters).name = RunCalls[i].cls
                  /\ Last(outcomes) = RunCalls[i].out
        /\ \A i \in 1..Len(outcomes) :
              outcomes[i] # Raise("ValueError: Unknown filter kind")
        /\ Finished => (Last(outcomes).type = "raise" <=> Last(RunCalls).out.type = "raise")
        /\ \A i \in 1..Len(Applied) :
              (Applied[i].cls = "LegacyHooksPyFilter" /\ hooksfile = "raises") =>
                  Applied[i].out = Return(Applied[i].data)

\* a named unit raised after an earlier unit had been applied, with classes
\* left to visit
C10_Witness ==
    /\ AutoRun /\ Finished
    /\ Last(outcomes).type = "raise"
    /\ Len(Applied) >= 2
    /\ Len(filters) > 1
    /\ Applied[1].out.value # input
\* the class a call entry names
AllClasses == BuiltinNamed \cup UserNamed \cup UserAnonymous
                \cup {BuiltinAnonymous[i] : i \in 1..Len(BuiltinAnonymous)}
ClassOf(c) == CHOOSE cls \in AllClasses : cls.name = c.cls
Said(c, b) == c.out.value = Bool(b)

\* C11 (as stated): in auto_process every unit without a MATCH reports no
\* match and its filter() is not called.
C11_AsStated ==
    AutoRun =>
        /\ \A i \in 1..Len(Matched) : ~ClassOf(Matched[i]).hasMATCH => Said(Matched[i], FALSE)
        /\ \A i \in 1..Len(Applied) : ClassOf(Applied[i]).hasMATCH

\* C11 (amended): in auto_process every unit without a MATCH, other than the
\* legacy hooks unit, reports no match for every job and its filter() is
\* not called; the legacy hooks unit, which has no MATCH, reports a match
\* exactly when hooks.py was loaded, whatever the job, and is then applied.
C11_NoMatchWithoutMATCH ==
    AutoRun =>
        /\ \A i \in 1..Len(Matched) :
              ~ClassOf(Matched[i]).hasMATCH =>
                  IF Matched[i].cls = "LegacyHooksPyFilter"
                  THEN Said(Matched[i], HooksLoaded(hooksfile))
                  ELSE Said(Matched[i], FALSE)
        /\ \A i \in 1..Len(Applied) :
              ClassOf(Applied[i]).hasMATCH
                \/ (Applied[i].cls = "LegacyHooksPyFilter" /\ HooksLoaded(hooksfile))

\* a finished run in which the units without MATCH were all visited, the
\* legacy hooks unit was the only one of them applied, and a unit with a
\* MATCH was applied too
C11_Witness ==
    /\ AutoRun /\ Returned
    /\ Len(Applied) = 2
    /\ ClassOf(Applied[1]).hasMATCH
    /\ Applied[2].cls = "LegacyHooksPyFilter"
    /\ \E i \in 1..Len(Matched) : Matched[i].cls = "AutoMatchFilter" /\ Said(Matched[i], FALSE)

\* the units that call _no_subfilters
NoSubfilterUnits == {"Ical2TextFilter", "StripFilter", "Sha1Filter", "HexdumpFilter"}
\* the units that need a value
NeedValueUnits == {"GrepFilter", "InverseGrepFilter", "GetElementById",
                   "GetElementByClass", "GetElementByStyle", "GetElementByTag"}
Unsupported == Raise("ValueError: No subfilters supported")
MissingArgument ==
    {Raise("ValueError: The grep filter needs a regular expression"),
     Raise("ValueError: The inverse grep filter needs a regular expression"),
     Raise("ValueError: Need an element ID for filtering"),
     Raise("ValueError: Need an element class for filtering"),
     Raise("ValueError: Need an element style for filtering"),
     Raise("ValueError: Need a tag for filtering")}
\* process was called with the kind of a registered class
ProcessOf(names) ==
    /\ ProcessRun /\ Finished
    /\ calls[1].kind \in DOMAIN subclasses
    /\ subclasses[calls[1].kind].name \in names

\* C14: process on ical2text, strip, sha1sum or hexdump with a str or dict
\* argument raises the ValueError "No subfilters supported" and returns no
\* content; with None it does not raise it.
C14_NoSubfilters ==
    ProcessOf(NoSubfilterUnits) =>
        IF calls[1].sf.shape # "None"
        THEN outcomes = <<Unsupported>> /\ Last(calls).out = Unsupported
        ELSE Last(outcomes).type = "return" /\ Last(outcomes).value # <<>>

\* sha1sum was called through process with a str argument
C14_Witness ==
    /\ ProcessOf({"Sha1Filter"})
    /\ calls[1].sf.shape = "str"
    /\ outcomes = <<Unsupported>>

\* C15: with None as argument, grep, grepi and the four element-by units
\* raise their ValueError and give no content; html2text returns
\* html2text(data, method='re', options={}).
C15_AbsentArgument ==
    /\ (ProcessOf(NeedValueUnits) /\ calls[1].sf = SfNone) =>
          /\ Len(outcomes) = 1 /\ outcomes[1] \in MissingArgument
          /\ outcomes[1].value = <<>>
    /\ (ProcessOf({"Html2TextFilter"}) /\ calls[1].sf = SfNone) =>
          outcomes = <<Return(<<"html2text", "[", "re", ";", "](">> \o input \o <<")">>)>>

\* element-by-id was called through process without an argument
C15_Witness ==
    /\ ProcessOf({"GetElementById"}) /\ calls[1].sf = SfNone
    /\ outcomes = <<Raise("ValueError: Need an element ID for filtering")>>

\* C16: process with a registered kind constructs one instance of that class,
\* calls its filter() once with the content and the argument given, calls no
\* match(), and gives back what filter() gave, whether or not the unit
\* matches the job.
C16_ExplicitApply ==
    (ProcessRun /\ calls[1].kind \in DOMAIN subclasses) =>
        /\ Len(calls) = 3
        /\ calls[2].op = "init" /\ calls[2].cls = subclasses[calls[1].kind].name
        /\ calls[3].op = "filter" /\ calls[3].cls = calls[2].cls
        /\ calls[3].data = input /\ calls[3].sf = calls[1].sf
        /\ Matched = <<>>
        /\ outcomes = <<calls[3].out>>

\* a unit whose MATCH does not match the job was applied through process
\* with an argument and returned content
C16_Witness ==
    /\ ProcessOf({"UserA"}) /\ Returned
    /\ ~Match(subclasses[calls[1].kind], job, hooksfile)
    /\ calls[1].sf.shape = "str"
    /\ Last(outcomes).value # input
(***************************************************************************)
(* Statements about match()                                                *)
(***************************************************************************)
Unit == Head(filters)
MatchedNow == pc = "matched" /\ outcomes # <<>>
SaidNow(b) == Last(outcomes) = Return(Bool(b))
\* the keys of the criterion that the job has
Present == (DOMAIN Unit.MATCH) \cap (DOMAIN job)
\* match() was true, then a key of the criterion was taken out of the job
RemovedRequired ==
    /\ MatchedNow /\ Len(outcomes) >= 2
    /\ outcomes[Len(outcomes) - 1] = Return(Bool(TRUE))
    /\ data # <<>> /\ data[1] \in DOMAIN Unit.MATCH

\* C12: for a unit with a Regex-Set criterion, match() is true iff some key
\* of the criterion is in the job and the pattern of every such key matches
\* the job's value; it is false when the job has none of the keys, and false
\* when it has exactly one of them and that pattern fails.
C12_RegexSet ==
    (MatchedNow /\ Unit.base = "RegexMatchFilter" /\ Unit.hasMATCH) =>
        /\ SaidNow(/\ Present # {}
                   /\ \A key \in Present : job[key] \in Language(Unit.MATCH[key]))
        /\ Present = {} => SaidNow(FALSE)
        /\ (\E key \in Present :
               Present = {key} /\ job[key] \notin Language(Unit.MATCH[key])) => SaidNow(FALSE)

\* match() was true for a criterion with two keys of which the job has one
C12_Witness ==
    /\ MatchedNow /\ Unit.base = "RegexMatchFilter" /\ Unit.hasMATCH
    /\ Cardinality(DOMAIN Unit.MATCH) = 2 /\ Cardinality(Present) = 1
    /\ SaidNow(TRUE)

\* C13: for a unit with an Attribute-Equality criterion, match() is true iff
\* every key of the criterion is in the job with an equal value; after a key
\* of the criterion is removed from a matching job, match() is false.
C13_AttributeEquality ==
    (MatchedNow /\ Unit.base = "AutoMatchFilter" /\ Unit.hasMATCH) =>
        /\ SaidNow(\A key \in DOMAIN Unit.MATCH :
                      key \in DOMAIN job /\ job[key] = Unit.MATCH[key])
        /\ (\E key \in DOMAIN Unit.MATCH : key \notin DOMAIN job) => SaidNow(FALSE)
        /\ RemovedRequired => SaidNow(FALSE)

\* a job matched a criterion of two keys, lost one of them and matches no more
C13_Witness ==
    /\ Unit.base = "AutoMatchFilter" /\ Unit.hasMATCH
    /\ Cardinality(DOMAIN Unit.MATCH) = 2
    /\ RemovedRequired /\ SaidNow(FALSE)
\* the calls of the n-th entry point call
EntryAt == {i \in 1..Len(calls) : IsEntry(calls[i])}
NthEntry(n) == CHOOSE i \in EntryAt : Cardinality({k \in EntryAt : k <= i}) = n
CallsOfRun(n) ==
    SubSeq(calls, NthEntry(n),
           IF n < Cardinality(EntryAt) THEN NthEntry(n + 1) - 1 ELSE Len(calls))

====
